---------------------------- MODULE Spec2Model ----------------------------
(***************************************************************************)
(* Model of Totro::generate (src/src/totro.rs): the Totro name generator.  *)
(* One call of generate(min, max, rng) is a state machine whose steps are  *)
(* the range check and the two opening draws, one iteration of the         *)
(* rejection loop per index draw, and the closing capitalisation.          *)
(* Strings are sequences of one-character strings; the random source is    *)
(* the supplier of each action's input, and `draws` counts the values      *)
(* taken from it.                                                          *)
(***************************************************************************)
EXTENDS Integers, Sequences, FiniteSets, TLC

\* Largest value of the arguments min and max that is explored.
MaxArg == 3

\* Largest length for which the tables are checked position by position.
MaxLen == 50

\* Largest number of rejected index draws explored within one call.
MaxRejects == 2

\* The raw usize values the random source may return for an index draw.
\* Reduced modulo the table length they select, in CONSONANTS / VOWELS:
\*     0 -> "b"   / "a"        12 -> "qu" / "i"      28 -> "ck" / "o"
\*    29 -> "nk"  / "u"        30 -> "rk" / "a"      32 -> "wk" / "i"
\*    49 -> "ss"  / "u"        81 -> "r"  / "'"     142 -> "str" / "u"
\*   163 -> "f"   / "eau"
RawDraws == {0, 12, 28, 29, 30, 32, 49, 81, 142, 163}

(***************************************************************************)
(* Placement masks (u8 bit flags).                                         *)
(***************************************************************************)
RECURSIVE BitAnd(_, _)
BitAnd(a, b) ==
  IF a = 0 \/ b = 0 THEN 0
  ELSE (a % 2) * (b % 2) + 2 * BitAnd(a \div 2, b \div 2)

RECURSIVE BitOr(_, _)
BitOr(a, b) ==
  IF a = 0 /\ b = 0 THEN 0
  ELSE (IF (a % 2) + (b % 2) > 0 THEN 1 ELSE 0) + 2 * BitOr(a \div 2, b \div 2)

NIW == 0
BOW == 4
MOW == 2
EOW == 1
BMW == BitOr(BOW, MOW)
BEW == BitOr(BOW, EOW)
MEW == BitOr(MOW, EOW)
AIW == BitOr(BitOr(BOW, MOW), EOW)

(***************************************************************************)
(* The fragment tables: (text, placement) pairs, in source order.          *)
(***************************************************************************)
CONSONANTS ==
  <<
    << <<"b">>, AIW >>, << <<"c">>, AIW >>, << <<"d">>, AIW >>, << <<"f">>, AIW >>,
    << <<"g">>, AIW >>, << <<"h">>, AIW >>, << <<"j">>, AIW >>, << <<"k">>, AIW >>,
    << <<"l">>, AIW >>, << <<"m">>, AIW >>, << <<"n">>, AIW >>, << <<"p">>, AIW >>,
    << <<"q", "u">>, BMW >>, << <<"r">>, AIW >>, << <<"s">>, AIW >>, << <<"t">>, AIW >>,
    << <<"v">>, AIW >>, << <<"w">>, AIW >>, << <<"x">>, AIW >>, << <<"y">>, AIW >>,
    << <<"z">>, AIW >>, << <<"s", "c">>, AIW >>, << <<"c", "h">>, AIW >>, << <<"g", "h">>, AIW >>,
    << <<"p", "h">>, AIW >>, << <<"s", "h">>, AIW >>, << <<"t", "h">>, AIW >>, << <<"w", "h">>, BMW >>,
    << <<"c", "k">>, BEW >>, << <<"n", "k">>, BEW >>, << <<"r", "k">>, BEW >>, << <<"s", "k">>, AIW >>,
    << <<"w", "k">>, NIW >>, << <<"c", "l">>, BMW >>, << <<"f", "l">>, BMW >>, << <<"g", "l">>, BMW >>,
    << <<"k", "l">>, BMW >>, << <<"l", "l">>, BMW >>, << <<"p", "l">>, BMW >>, << <<"s", "l">>, BMW >>,
    << <<"b", "r">>, BMW >>, << <<"c", "r">>, BMW >>, << <<"d", "r">>, BMW >>, << <<"f", "r">>, BMW >>,
    << <<"g", "r">>, BMW >>, << <<"k", "r">>, BMW >>, << <<"p", "r">>, BMW >>, << <<"s", "r">>, BMW >>,
    << <<"t", "r">>, BMW >>, << <<"s", "s">>, BEW >>, << <<"s", "t">>, AIW >>, << <<"s", "t", "r">>, BMW >>,
    << <<"b">>, AIW >>, << <<"c">>, AIW >>, << <<"d">>, AIW >>, << <<"f">>, AIW >>,
    << <<"g">>, AIW >>, << <<"h">>, AIW >>, << <<"j">>, AIW >>, << <<"k">>, AIW >>,
    << <<"l">>, AIW >>, << <<"m">>, AIW >>, << <<"n">>, AIW >>, << <<"p">>, AIW >>,
    << <<"r">>, AIW >>, << <<"s">>, AIW >>, << <<"t">>, AIW >>, << <<"v">>, AIW >>,
    << <<"w">>, AIW >>, << <<"b">>, AIW >>, << <<"c">>, AIW >>, << <<"d">>, AIW >>,
    << <<"f">>, AIW >>, << <<"g">>, AIW >>, << <<"h">>, AIW >>, << <<"j">>, AIW >>,
    << <<"k">>, AIW >>, << <<"l">>, AIW >>, << <<"m">>, AIW >>, << <<"n">>, AIW >>,
    << <<"p">>, AIW >>, << <<"r">>, AIW >>, << <<"s">>, AIW >>, << <<"t">>, AIW >>,
    << <<"v">>, AIW >>, << <<"w">>, AIW >>, << <<"b", "r">>, BMW >>, << <<"d", "r">>, BMW >>,
    << <<"f", "r">>, BMW >>, << <<"g", "r">>, BMW >>, << <<"k", "r">>, BMW >>
  >>

VOWELS ==
  <<
    << <<"a">>, AIW >>, << <<"e">>, AIW >>, << <<"i">>, AIW >>, << <<"o">>, AIW >>,
    << <<"u">>, AIW >>, << <<"a">>, AIW >>, << <<"e">>, AIW >>, << <<"i">>, AIW >>,
    << <<"o">>, AIW >>, << <<"u">>, AIW >>, << <<"a">>, AIW >>, << <<"e">>, AIW >>,
    << <<"i">>, AIW >>, << <<"o">>, AIW >>, << <<"u">>, AIW >>, << <<"a">>, AIW >>,
    << <<"e">>, AIW >>, << <<"i">>, AIW >>, << <<"o">>, AIW >>, << <<"u">>, AIW >>,
    << <<"a">>, AIW >>, << <<"e">>, AIW >>, << <<"i">>, AIW >>, << <<"o">>, AIW >>,
    << <<"u">>, AIW >>, << <<"a">>, AIW >>, << <<"e">>, AIW >>, << <<"i">>, AIW >>,
    << <<"o">>, AIW >>, << <<"u">>, AIW >>, << <<"a">>, AIW >>, << <<"e">>, AIW >>,
    << <<"i">>, AIW >>, << <<"o">>, AIW >>, << <<"u">>, AIW >>, << <<"a">>, AIW >>,
    << <<"e">>, AIW >>, << <<"i">>, AIW >>, << <<"o">>, AIW >>, << <<"u">>, AIW >>,
    << <<"a">>, AIW >>, << <<"e">>, AIW >>, << <<"i">>, AIW >>, << <<"o">>, AIW >>,
    << <<"u">>, AIW >>, << <<"a">>, AIW >>, << <<"e">>, AIW >>, << <<"i">>, AIW >>,
    << <<"o">>, AIW >>, << <<"u">>, AIW >>, << <<"a">>, AIW >>, << <<"e">>, AIW >>,
    << <<"i">>, AIW >>, << <<"o">>, AIW >>, << <<"u">>, AIW >>, << <<"a">>, AIW >>,
    << <<"e">>, AIW >>, << <<"i">>, AIW >>, << <<"o">>, AIW >>, << <<"u">>, AIW >>,
    << <<"a", "a">>, AIW >>, << <<"a", "e">>, AIW >>, << <<"a", "i">>, AIW >>, << <<"a", "o">>, AIW >>,
    << <<"a", "u">>, AIW >>, << <<"e", "a">>, AIW >>, << <<"e", "e">>, AIW >>, << <<"e", "i">>, AIW >>,
    << <<"e", "o">>, AIW >>, << <<"e", "u">>, AIW >>, << <<"i", "a">>, AIW >>, << <<"i", "e">>, AIW >>,
    << <<"i", "i">>, AIW >>, << <<"i", "o">>, AIW >>, << <<"i", "u">>, AIW >>, << <<"o", "a">>, AIW >>,
    << <<"o", "e">>, AIW >>, << <<"o", "i">>, AIW >>, << <<"o", "o">>, AIW >>, << <<"o", "u">>, AIW >>,
    << <<"e", "a", "u">>, AIW >>, << <<"'">>, MEW >>, << <<"y">>, AIW >>
  >>

\* Table index selected by a raw draw: rng.gen::<usize>() % TABLE.len().
\* Sequences are 1-based, hence the + 1.
VowelIndex(raw) == (raw % Len(VOWELS)) + 1
ConsonantIndex(raw) == (raw % Len(CONSONANTS)) + 1

\* The token fetched by one iteration of the loop.
Token(isVowel, raw) ==
  IF isVowel THEN VOWELS[VowelIndex(raw)] ELSE CONSONANTS[ConsonantIndex(raw)]

\* Variant of Rejects: the END test of the last position left out.
Rejects_NoEndCheck(i, len, flags) ==
  IF i = 0 /\ BitAnd(flags, BOW) # BOW THEN TRUE
  ELSE IF BitAnd(flags, MOW) # MOW THEN TRUE
  ELSE FALSE

\* Variant of Rejects: the END test compares against the wrong mask.
Rejects_EndNeverMatches(i, len, flags) ==
  IF i = 0 /\ BitAnd(flags, BOW) # BOW THEN TRUE
  ELSE IF i = len - 1 /\ BitAnd(flags, EOW) # BOW THEN TRUE
  ELSE IF BitAnd(flags, MOW) # MOW THEN TRUE
  ELSE FALSE

\* Variant of Rejects: one test per position (if / else if / else), each
\* position checked against its own flag only.
Rejects_ElseBranches(i, len, flags) ==
  IF i = 0 THEN BitAnd(flags, BOW) # BOW
  ELSE IF i = len - 1 THEN BitAnd(flags, EOW) # EOW
  ELSE BitAnd(flags, MOW) # MOW

\* The if / else-if chain of the loop body: TRUE when the iteration
\* takes one of the three `continue` branches.  A condition that is false
\* (the position does not match, or the flag is set) passes control to the
\* next else-if.
Rejects(i, len, flags) ==
  IF i = 0 /\ BitAnd(flags, BOW) # BOW THEN TRUE
  ELSE IF i = len - 1 /\ BitAnd(flags, EOW) # EOW THEN TRUE
  ELSE IF BitAnd(flags, MOW) # MOW THEN TRUE
  ELSE FALSE

\* Variant of GenRange: the closed range lo..=hi.
GenRange_Inclusive(lo, hi) == lo .. hi

\* rng.gen_range(lo..hi): the values the half-open range can yield.

GenRange(lo, hi) == lo .. (hi - 1)

(***************************************************************************)
(* ASCII case conversion.                                                  *)
(***************************************************************************)
Lower ==
  << "a", "b", "c", "d", "e", "f", "g", "h", "i", "j", "k", "l", "m",
     "n", "o", "p", "q", "r", "s", "t", "u", "v", "w", "x", "y", "z" >>

Upper ==
  << "A", "B", "C", "D", "E", "F", "G", "H", "I", "J", "K", "L", "M",
     "N", "O", "P", "Q", "R", "S", "T", "U", "V", "W", "X", "Y", "Z" >>

\* u8::to_ascii_uppercase on one character: 'a'..'z' map to 'A'..'Z',
\* every other character is left as it is.
ToAsciiUppercase(c) ==
  IF \E k \in 1..Len(Lower) : Lower[k] = c
  THEN Upper[CHOOSE k \in 1..Len(Lower) : Lower[k] = c]
  ELSE c

\* Variant of MakeAsciiUppercase: the slice is left as it is.
MakeAsciiUppercase_Noop(s) == s

\* str::make_ascii_uppercase on a slice: every character converted.

MakeAsciiUppercase(s) == [k \in 1..Len(s) |-> ToAsciiUppercase(s[k])]

\* str::get_mut(0..1): the one-character leading slice, or None when the
\* range is out of bounds (all table text is ASCII, so index 1 is always a
\* character boundary).  None is modelled by the empty sequence of slices.
GetMut01(s) == IF Len(s) >= 1 THEN << SubSeq(s, 1, 1) >> ELSE << >>

(***************************************************************************)
(* State of one call.                                                      *)
(***************************************************************************)
VARIABLES
  min,       \* argument min: u8
  max,       \* argument max: u8
  pc,        \* position in generate
  length,    \* local `length`
  vowel,     \* local `vowel`: the table the next token is taken from
  idx,       \* loop variable `idx`
  token,     \* local `token` of the latest iteration, as <<isVowel, index>>
  output,    \* local `output`
  draws,     \* history: number of values taken from rng (see Count)
  first,     \* history: the boolean drawn for `vowel`
  accepted,  \* history: the tokens pushed, as <<isVowel, index>>
  rejected   \* history: iterations that took `continue` (see Count)

vars ==
  << min, max, pc, length, vowel, idx, token, output, draws, first,
     accepted, rejected >>

NoToken == << >>

\* The loop has no iteration cap.  The two history counters stop counting
\* once MaxRejects iterations of a call have been rejected, so that the
\* state space stays finite while every rejection remains possible.
Count(n) == IF n < MaxRejects THEN n + 1 ELSE n

\* The table entry a <<isVowel, index>> pair names.
Entry(t) == IF t[1] THEN VOWELS[t[2]] ELSE CONSONANTS[t[2]]
Text(t) == Entry(t)[1]
Flags(t) == Entry(t)[2]

Init ==
  /\ min \in 0..MaxArg
  /\ max \in 0..MaxArg
  /\ pc = "entry"
  /\ length = 0
  /\ vowel = FALSE
  /\ idx = 0
  /\ token = NoToken
  /\ output = << >>
  /\ draws = 0
  /\ first = FALSE
  /\ accepted = << >>
  /\ rejected = 0

\* Variant of PanicInvalidRange: a value is taken from rng before the panic.
PanicInvalidRange_AfterDraw ==
  /\ pc = "entry"
  /\ min > max
  /\ pc' = "panic_range"
  /\ draws' = draws + 1
  /\ UNCHANGED << min, max, length, vowel, idx, token, output, first,
                  accepted, rejected >>

\* Line 67: min > max, the panic of the final else branch.
PanicInvalidRange ==
  /\ pc = "entry"
  /\ min > max
  /\ pc' = "panic_range"
  /\ UNCHANGED << min, max, length, vowel, idx, token, output, draws, first,
                  accepted, rejected >>

\* Lines 62-70: length selection, the empty output, the parity draw.
Begin ==
  /\ pc = "entry"
  /\ min <= max
  /\ \E b \in BOOLEAN :
       /\ vowel' = b
       /\ first' = b
  /\ IF min < max
       THEN /\ length' \in GenRange(min, max)
            /\ draws' = draws + 2
       ELSE /\ length' = min
            /\ draws' = draws + 1
  /\ output' = << >>
  /\ idx' = 0
  /\ pc' = "loop"
  /\ UNCHANGED << min, max, token, accepted, rejected >>

\* Variant of Draw: the parity is flipped on rejected iterations too.
Draw_FlipOnReject(raw) ==
  /\ pc = "loop"
  /\ idx < length
  /\ LET index == IF vowel THEN VowelIndex(raw) ELSE ConsonantIndex(raw)
         tok == Token(vowel, raw)
     IN /\ token' = << vowel, index >>
        /\ vowel' = ~vowel
        /\ IF Rejects(idx, length, tok[2])
             THEN /\ rejected' = Count(rejected)
                  /\ draws' = IF rejected < MaxRejects THEN draws + 1 ELSE draws
                  /\ UNCHANGED << idx, output, accepted >>
             ELSE /\ output' = output \o tok[1]
                  /\ accepted' = Append(accepted, << vowel, index >>)
                  /\ idx' = idx + 1
                  /\ draws' = draws + 1
                  /\ UNCHANGED rejected
  /\ UNCHANGED << min, max, pc, length, first >>

\* Lines 72-88: one iteration of the inner loop at position idx, with the
\* random source returning raw.
Draw(raw) ==
  /\ pc = "loop"
  /\ idx < length
  /\ LET index == IF vowel THEN VowelIndex(raw) ELSE ConsonantIndex(raw)
         tok == Token(vowel, raw)
     IN /\ token' = << vowel, index >>
        /\ IF Rejects(idx, length, tok[2])
             THEN /\ rejected' = Count(rejected)
                  /\ draws' = IF rejected < MaxRejects THEN draws + 1 ELSE draws
                  /\ UNCHANGED << vowel, idx, output, accepted >>
             ELSE /\ vowel' = ~vowel
                  /\ output' = output \o tok[1]
                  /\ accepted' = Append(accepted, << vowel, index >>)
                  /\ idx' = idx + 1
                  /\ draws' = draws + 1
                  /\ UNCHANGED rejected
  /\ UNCHANGED << min, max, pc, length, first >>

\* Lines 90-91: the loop is over; uppercase the leading slice and return.
\* unwrap() of None panics.
Finish ==
  /\ pc = "loop"
  /\ idx = length
  /\ LET slice == GetMut01(output)
     IN IF slice = << >>
          THEN /\ pc' = "panic_unwrap"
               /\ UNCHANGED output
          ELSE /\ output' =
                    MakeAsciiUppercase(slice[1]) \o SubSeq(output, 2, Len(output))
               /\ pc' = "returned"
  /\ UNCHANGED << min, max, length, vowel, idx, token, draws, first,
                  accepted, rejected >>

Next ==
  \/ PanicInvalidRange
  \/ Begin
  \/ \E raw \in RawDraws : Draw(raw)
  \/ Finish

Spec == Init /\ [][Next]_vars

\* Sequential execution takes every enabled step; a fair random source
\* returns every raw value again and again while a position is redrawn.
FairSpec ==
  /\ Spec
  /\ WF_vars(PanicInvalidRange)
  /\ WF_vars(Begin)
  /\ \A raw \in RawDraws : WF_vars(Draw(raw))
  /\ WF_vars(Finish)

TypeOK ==
  /\ min \in 0..MaxArg /\ max \in 0..MaxArg
  /\ pc \in {"entry", "loop", "returned", "panic_range", "panic_unwrap"}
  /\ length \in 0..MaxArg
  /\ vowel \in BOOLEAN /\ first \in BOOLEAN
  /\ idx \in 0..length
  /\ draws \in Nat /\ rejected \in 0..MaxRejects

(***************************************************************************)
(* Properties.                                                             *)
(***************************************************************************)
HasFlag(t, f) == BitAnd(Flags(t), f) = f

\* The concatenated table text of a sequence of tokens.
RECURSIVE Flatten(_)
Flatten(ts) == IF ts = << >> THEN << >> ELSE Text(Head(ts)) \o Flatten(Tail(ts))

\* The for loop has run to its end.
LoopOver ==
  \/ pc \in {"returned", "panic_unwrap"}
  \/ pc = "loop" /\ idx = length

\* The table position idx (0-based) takes its token from: TRUE for VOWELS.
TableAt(i) == IF i % 2 = 0 THEN first ELSE ~first

UpperSet == {Upper[k] : k \in 1..Len(Upper)}
LowerSet == {Lower[k] : k \in 1..Len(Lower)}

\* C1: whenever min > max the call panics with the invalid-range error and
\* never gets further: no value has been taken from rng (its state is that
\* of call entry) and no output has been produced.
C1_InvalidRangePanicsBeforeAnyDraw ==
  min > max =>
    /\ pc \in {"entry", "panic_range"}
    /\ draws = 0
    /\ output = << >>
    /\ accepted = << >>
    /\ token = NoToken

C1_Witness == pc = "panic_range" /\ min > max

\* C2: the number of fragments appended by the loop never reaches max when
\* min < max, and once the loop is over it lies in [min, max) when
\* min < max and is exactly min when min = max.
C2_FragmentCountInRange ==
  /\ min < max => Len(accepted) < max
  /\ LoopOver =>
       /\ min < max => (min <= Len(accepted) /\ Len(accepted) < max)
       /\ min = max => Len(accepted) = min

C2_Witness ==
  /\ pc = "returned"
  /\ min < max
  /\ min < Len(accepted)
  /\ Len(accepted) = max - 1

\* C3: in a name of length >= 2 the fragment accepted at position 0 has
\* BEGIN set, the one at position length-1 has END set, and every fragment
\* accepted strictly between them has MIDDLE set.
C3_PlacementLegal ==
  length >= 2 =>
    \A i \in 1..Len(accepted) :
      /\ i = 1 => HasFlag(accepted[i], BOW)
      /\ i = length => HasFlag(accepted[i], EOW)
      /\ (1 < i /\ i < length) => HasFlag(accepted[i], MOW)

C3_Witness ==
  /\ pc = "returned"
  /\ length >= 3
  /\ Len(accepted) = length
  /\ rejected >= 1

\* C4: when length = 1, a token drawn at position 0 whose BEGIN flag is set
\* is accepted, whatever its END flag.
C4_SoleFragmentNeedsOnlyBegin ==
  (pc = "loop" /\ length = 1 /\ token # NoToken /\ HasFlag(token, BOW)) =>
    (idx = 1 /\ accepted = << token >>)

\* C5: the fragment at position 0 comes from the vowel table iff the
\* boolean draw was true, every later fragment comes from the table opposite
\* to its predecessor's, and rejected draws neither flip the parity, nor
\* append text, nor advance the position.
C5_Alternation ==
  pc \notin {"entry", "panic_range"} =>
    /\ \A i \in 1..Len(accepted) : accepted[i][1] = TableAt(i - 1)
    /\ \A i \in 1..(Len(accepted) - 1) : accepted[i][1] # accepted[i + 1][1]
    /\ idx = Len(accepted)
    /\ pc = "loop" => (vowel = TableAt(idx) /\ output = Flatten(accepted))

C5_Witness ==
  /\ pc = "returned"
  /\ Len(accepted) >= 3
  /\ rejected >= 2
  /\ first

\* C6: the returned string of a name of length >= 1 starts with the
\* uppercase ASCII letter of the first character of the fragment at position
\* 0 (never the apostrophe), and every later character is the lowercase
\* table text, unchanged.
C6_Capitalised ==
  (pc = "returned" /\ length >= 1) =>
    LET raw == Flatten(accepted)
    IN /\ Len(output) = Len(raw)
       /\ output[1] \in UpperSet
       /\ raw[1] # "'"
       /\ \E k \in 1..Len(Lower) : raw[1] = Lower[k] /\ output[1] = Upper[k]
       /\ \A k \in 2..Len(raw) :
            /\ output[k] = raw[k]
            /\ output[k] \in LowerSet \cup {"'"}

C6_Witness ==
  /\ pc = "returned"
  /\ Len(accepted) >= 2
  /\ Len(Text(accepted[1])) >= 2
  /\ \E k \in 2..Len(output) : output[k] = "'"

\* C7: when the selected length is 0 the call does not crash: no fragment
\* is drawn and the empty string is returned.
C7_EmptyNameReturned ==
  (length = 0 /\ pc \notin {"entry", "panic_range"}) =>
    /\ pc # "panic_unwrap"
    /\ accepted = << >>
    /\ output = << >>

\* C8: with the shipped tables every position of every length >= 1 has, in
\* either table, an entry that passes the placement filter; hence under fair
\* draws the rejection loop exits at every position and the call returns.
EveryPositionSatisfiable ==
  \A len \in 1..MaxLen : \A i \in 0..(len - 1) :
    /\ \E k \in 1..Len(VOWELS) : ~Rejects(i, len, VOWELS[k][2])
    /\ \E k \in 1..Len(CONSONANTS) : ~Rejects(i, len, CONSONANTS[k][2])

C8_LoopExitsAndReturns ==
  /\ [](EveryPositionSatisfiable)
  /\ (pc = "loop" /\ length >= 1) ~> (pc = "returned")
  /\ (pc = "entry" /\ 1 <= min /\ min <= max) ~> (pc = "returned")

C8_Witness ==
  /\ pc = "returned"
  /\ min >= 2
  /\ min < max
  /\ rejected = MaxRejects

=============================================================================
